---- MODULE Spec2Model ----
(***************************************************************************)
(* Patch-and-Transform composition (composition_pt.go): template           *)
(* association, the composed-resource renderer and PTComposer.Compose.     *)
(***************************************************************************)
EXTENDS Integers, Sequences, FiniteSets, TLC

(***************************************************************************)
(* Bounds of the model.                                                    *)
(***************************************************************************)
MaxTemplates == 2
MaxRefs == 3
MaxPatches == 3

(***************************************************************************)
(* Values.                                                                 *)
(***************************************************************************)
\* A nil pointer / nil error / nil environment.
Nil == "nil"
\* A field path that does not resolve.
Absent == "absent"

\* Error strings, composition_pt.go:41-59.
errUnmarshal == "cannot unmarshal base template"
errNamePrefix == "name prefix is not found in labels"
errKindChanged == "cannot change the kind of an existing composed resource"
errInline == "cannot inline Composition patch sets"
errSetControllerRef == "cannot set controller reference"
errFmtPatch == "cannot apply the patch at index"
errFmtPatchEnvironment == "cannot apply environment patch at index"

\* Label keys of package xcrd used by the renderer.
LabelKeyNamePrefixForComposed == "crossplane.io/composite"
LabelKeyClaimName == "crossplane.io/claim-name"
LabelKeyClaimNamespace == "crossplane.io/claim-namespace"
LabelKeys == {LabelKeyNamePrefixForComposed, LabelKeyClaimName, LabelKeyClaimNamespace}

\* Patch types (v1.PatchType) and the three groups the renderers pass to Apply.
PatchTypeFromCompositeFieldPath == "FromCompositeFieldPath"
PatchTypeCombineFromComposite == "CombineFromComposite"
PatchTypeToCompositeFieldPath == "ToCompositeFieldPath"
PatchTypeCombineToComposite == "CombineToComposite"
PatchTypeFromEnvironmentFieldPath == "FromEnvironmentFieldPath"
PatchTypeCombineFromEnvironment == "CombineFromEnvironment"
PatchTypeToEnvironmentFieldPath == "ToEnvironmentFieldPath"
PatchTypeCombineToEnvironment == "CombineToEnvironment"

Kinds == {"Bucket", "Cache"}
TemplateNames == {"a", "b"}
Paths == {"x", "y"}
Vals == {"u", "v"}

NoFields == [p \in Paths |-> Absent]
NoLabels == [k \in LabelKeys |-> ""]

\* An empty composed resource (composed.New()).
EmptyObject ==
    [kind |-> "", name |-> "", namespace |-> "", generateName |-> "",
     labels |-> NoLabels, annotation |-> "", controller |-> "",
     fields |-> NoFields]

\* The zero corev1.ObjectReference.
EmptyReference == [kind |-> "", name |-> "", namespace |-> ""]

(***************************************************************************)
(* Patch engine.  A patch copies the value at a field path of one object   *)
(* to a field path of another; its type gives the direction.               *)
(***************************************************************************)
errMissingRequiredField == "MissingRequiredField"

patchTypesFromXR == {PatchTypeFromCompositeFieldPath, PatchTypeCombineFromComposite}
patchTypesToXR == {PatchTypeToCompositeFieldPath, PatchTypeCombineToComposite}
patchTypesFromToEnvironment ==
    {PatchTypeFromEnvironmentFieldPath, PatchTypeCombineFromEnvironment,
     PatchTypeToEnvironmentFieldPath, PatchTypeCombineToEnvironment}
PatchTypes == patchTypesFromXR \cup patchTypesToXR \cup patchTypesFromToEnvironment

\* Types whose source is the first object (composite / environment) and whose
\* destination is the composed resource.
patchTypesForward ==
    {PatchTypeFromCompositeFieldPath, PatchTypeCombineFromComposite,
     PatchTypeFromEnvironmentFieldPath, PatchTypeCombineFromEnvironment}

\* ApplyToObjects(p, a, b, only): a is the composite or the environment, b the
\* composed resource.  Result: both objects, the error, and whether the patch
\* passed the type filter.
ApplyToObjects(p, a, b, only) ==
    IF p.type \notin only
    THEN [a |-> a, b |-> b, err |-> Nil, applied |-> FALSE]
    ELSE LET src == IF p.type \in patchTypesForward THEN a ELSE b
             v == src.fields[p.from]
         IN IF v = Absent
            THEN [a |-> a, b |-> b, applied |-> TRUE,
                  err |-> IF p.required THEN errMissingRequiredField ELSE Nil]
            ELSE IF p.type \in patchTypesForward
                 THEN [a |-> a, b |-> [b EXCEPT !.fields[p.to] = v],
                       err |-> Nil, applied |-> TRUE]
                 ELSE [a |-> [a EXCEPT !.fields[p.to] = v], b |-> b,
                       err |-> Nil, applied |-> TRUE]

\* Apply(p, cp, cd, only): a patch between composite and composed resource.
Apply(p, cp, cd, only) == ApplyToObjects(p, cp, cd, only)

(***************************************************************************)
(* Template association.                                                   *)
(***************************************************************************)
\* TemplateAssociation{Template, Reference}.
TemplateAssociation(t, r) == [Template |-> t, Reference |-> r]

Min(a, b) == IF a < b THEN a ELSE b

\* AssociateByOrder with the result truncated to the shorter input.
AssociateByOrder_Truncating(t, r) ==
    [i \in 1..Min(Len(t), Len(r)) |-> TemplateAssociation(t[i], r[i])]

\* AssociateByOrder: template n corresponds to reference n.
AssociateByOrder(t, r) ==
    LET j == Min(Len(t), Len(r))
    IN [i \in 1..Len(t) |->
          TemplateAssociation(t[i], IF i <= j THEN r[i] ELSE EmptyReference)]

\* Index of the first template without a name, 0 when all are named.
RECURSIVE FirstUnnamed(_, _)
FirstUnnamed(ct, i) ==
    IF i > Len(ct) THEN 0
    ELSE IF ct[i].name = Nil THEN i
    ELSE FirstUnnamed(ct, i + 1)

\* AssociateTemplates falling back to order only when no template is named.
AssociateTemplates_AnyNamed(cr, ct) ==
    IF ct # <<>> /\ \A i \in 1..Len(ct) : ct[i].name = Nil
    THEN [tas |-> AssociateByOrder(ct, cr.refs), err |-> Nil]
    ELSE [tas |-> [i \in 1..Len(ct) |-> TemplateAssociation(ct[i], EmptyReference)],
          err |-> Nil]

\* GarbageCollectingAssociator.AssociateTemplates: (tas, err).
AssociateTemplates(cr, ct) ==
    IF FirstUnnamed(ct, 1) # 0
    THEN [tas |-> AssociateByOrder(ct, cr.refs), err |-> Nil]
    ELSE [tas |-> [i \in 1..Len(ct) |-> TemplateAssociation(ct[i], EmptyReference)],
          err |-> Nil]


(***************************************************************************)
(* The composed-resource renderer, APIDryRunRenderer.Render.               *)
(* A render result carries the composite, the composed resource and the    *)
(* environment as the call leaves them, the returned error, and the log of *)
(* the mutating steps performed, in order.                                 *)
(***************************************************************************)
\* errors.Wrapf(err, format, i) for the indexed formats.
Wrapf(err, format, i) == format \o " " \o ToString(i) \o ": " \o err

\* Entries of the render log: a step of Render, or patch i (1-based) of type ty.
LogStep(s) == [step |-> s, index |-> 0, type |-> ""]
LogPatch(i, ty) == [step |-> "patch", index |-> i, type |-> ty]

\* composed.New(composed.FromReference(ref)).
FromReference(ref) ==
    [EmptyObject EXCEPT !.kind = ref.kind, !.name = ref.name,
                        !.namespace = ref.namespace]

\* meta.ReferenceTo(r, r.GetObjectKind().GroupVersionKind()).
ReferenceTo(r) == [kind |-> r.kind, name |-> r.name, namespace |-> r.namespace]

\* json.Unmarshal keeping the fields of cd that the base does not set.
Unmarshal_Merging(base, cd) ==
    [base.obj EXCEPT
       !.fields = [p \in Paths |-> IF base.obj.fields[p] = Absent
                                   THEN cd.fields[p] ELSE base.obj.fields[p]]]

\* json.Unmarshal(t.Base.Raw, cd): the decoded base replaces the whole content
\* of the composed resource.
Unmarshal(base, cd) == base.obj

\* The kind check without the guard on an empty prior kind.
KindChanged_NoGuard(kind, cd) == cd.kind # kind

\* The kind-change test of Render.
KindChanged(kind, cd) == kind # "" /\ cd.kind # kind

\* The type groups Render hands to Apply and to ApplyToObjects.
RenderPatchTypes_All == [xr |-> PatchTypes, environment |-> PatchTypes]

RenderPatchTypes ==
    [xr |-> patchTypesFromXR, environment |-> patchTypesFromToEnvironment]

\* The state of a render after Apply / ApplyToObjects returned r for patch i
\* (1-based): the objects as patched, the patch logged if it passed the type
\* filter, and errors.Wrapf(err, errFmtPatch, i) on an error.
Patched(st, r, p, i, isEnv) ==
    [st EXCEPT !.cp = IF isEnv THEN st.cp ELSE r.a,
               !.env = IF isEnv THEN r.a ELSE st.env,
               !.cd = r.b,
               !.log = IF r.applied THEN Append(st.log, LogPatch(i, p.type)) ELSE st.log,
               !.err = IF r.err # Nil THEN Wrapf(r.err, errFmtPatch, i - 1) ELSE Nil]

\* Second half of an iteration: the environment patch types, when there is an
\* environment and the first half did not fail.
RenderPatchEnvironment(st, p, i) ==
    IF st.err # Nil \/ ~st.env.present THEN st
    ELSE Patched(st, ApplyToObjects(p, st.env, st.cd, RenderPatchTypes.environment),
                 p, i, TRUE)

\* One iteration of Render's patch loop on patch i of the template.
RenderPatch(st, p, i) ==
    RenderPatchEnvironment(
        Patched(st, Apply(p, st.cp, st.cd, RenderPatchTypes.xr), p, i, FALSE), p, i)

\* Render's patch loop applying only the composite-sourced patch types.
RECURSIVE RenderPatchesFromXR(_, _, _)
RenderPatchesFromXR(st, patches, i) ==
    IF i > Len(patches) \/ st.err # Nil THEN st
    ELSE RenderPatchesFromXR(
           Patched(st, Apply(patches[i], st.cp, st.cd, RenderPatchTypes.xr),
                   patches[i], i, FALSE),
           patches, i + 1)

\* Render's patch loop applying only the environment patch types.
RECURSIVE RenderPatchesEnvironment(_, _, _)
RenderPatchesEnvironment(st, patches, i) ==
    IF i > Len(patches) \/ st.err # Nil THEN st
    ELSE RenderPatchesEnvironment(RenderPatchEnvironment(st, patches[i], i),
                                  patches, i + 1)

\* The patch loop in two passes: every composite-sourced patch first, then
\* every environment patch.
RenderPatches_TwoPhase(st, patches, i) ==
    RenderPatchesEnvironment(RenderPatchesFromXR(st, patches, i), patches, i)

\* The patch loop going on to the next patch after a failed one.
RECURSIVE RenderPatches_Continuing(_, _, _)
RenderPatches_Continuing(st, patches, i) ==
    IF i > Len(patches) THEN st
    ELSE RenderPatches_Continuing(
           RenderPatch([st EXCEPT !.err = Nil], patches[i], i), patches, i + 1)

\* Render's patch loop from patch i on; stops at the first error.
RECURSIVE RenderPatches(_, _, _)
RenderPatches(st, patches, i) ==
    IF i > Len(patches) \/ st.err # Nil THEN st
    ELSE RenderPatches(RenderPatch(st, patches[i], i), patches, i + 1)

\* Adding the composed labels only where the resource has none.
AddLabels_KeepExisting(cd, cp) ==
    [cd EXCEPT !.labels = [k \in LabelKeys |->
                             IF cd.labels[k] = "" THEN cp.labels[k] ELSE cd.labels[k]]]

\* meta.AddLabels of the three composed labels.
AddLabels(cd, cp) ==
    [cd EXCEPT !.labels = [k \in LabelKeys |-> cp.labels[k]]]

\* if t.Name != nil { SetCompositionResourceName(cd, *t.Name) }.
SetCompositionResourceName(cd, t) ==
    IF t.name # Nil THEN [cd EXCEPT !.annotation = t.name] ELSE cd

\* Adding the controller reference only where the resource has none.
AddControllerReference_KeepExisting(cd, cp) ==
    IF cd.controller # ""
    THEN [cd |-> cd, err |-> Nil]
    ELSE [cd |-> [cd EXCEPT !.controller = cp.uid], err |-> Nil]

\* meta.AddControllerReference: refuses a resource controlled by another owner.
AddControllerReference(cd, cp) ==
    IF cd.controller \notin {"", cp.uid}
    THEN [cd |-> cd, err |-> errSetControllerRef]
    ELSE [cd |-> [cd EXCEPT !.controller = cp.uid], err |-> Nil]

\* Render from the controller reference on: oref is what AddControllerReference
\* returned.
RenderController(st, oref) ==
    IF oref.err # Nil
    THEN [st EXCEPT !.cd = oref.cd, !.err = oref.err]
    ELSE [st EXCEPT !.cd = oref.cd, !.log = Append(st.log, LogStep("controller"))]

\* Render after the patch loop: labels, annotation, controller reference.
RenderStamps(st, t) ==
    IF st.err # Nil THEN st
    ELSE RenderController(
           [st EXCEPT !.cd = SetCompositionResourceName(AddLabels(st.cd, st.cp), t),
                      !.log = IF t.name # Nil
                              THEN st.log \o <<LogStep("labels"), LogStep("annotation")>>
                              ELSE Append(st.log, LogStep("labels"))],
           AddControllerReference(
               SetCompositionResourceName(AddLabels(st.cd, st.cp), t), st.cp))

\* The identity step leaving the name and namespace the base wrote.
SetIdentity_KeepBase(cd, prefix, name, namespace) ==
    [cd EXCEPT !.generateName = prefix \o "-"]

\* The identity step setting the prefix itself as generate name.
SetIdentity_NoDash(cd, prefix, name, namespace) ==
    [cd EXCEPT !.generateName = prefix, !.name = name, !.namespace = namespace]

\* SetGenerateName(prefix + "-"), SetName(name), SetNamespace(namespace).
SetIdentity(cd, prefix, name, namespace) ==
    [cd EXCEPT !.generateName = prefix \o "-", !.name = name, !.namespace = namespace]

\* The name-prefix test reading another label of the composite.
NamePrefixMissing_WrongLabel(cp) == cp.labels[LabelKeyClaimName] = ""

\* cp.GetLabels()[xcrd.LabelKeyNamePrefixForComposed] == "".
NamePrefixMissing(cp) == cp.labels[LabelKeyNamePrefixForComposed] = ""

\* Render after the base was unmarshalled onto cd; kind, name and namespace are
\* the values read from the resource before that.
RenderUnmarshalled(cp, cd, t, env, kind, name, namespace) ==
    IF KindChanged(kind, cd)
    THEN [cp |-> cp, cd |-> cd, env |-> env, err |-> errKindChanged,
          log |-> <<LogStep("unmarshal")>>]
    ELSE IF NamePrefixMissing(cp)
    THEN [cp |-> cp, cd |-> cd, env |-> env, err |-> errNamePrefix,
          log |-> <<LogStep("unmarshal")>>]
    ELSE RenderStamps(
           RenderPatches(
             [cp |-> cp,
              cd |-> SetIdentity(cd, cp.labels[LabelKeyNamePrefixForComposed],
                                 name, namespace),
              env |-> env, err |-> Nil,
              log |-> <<LogStep("unmarshal"), LogStep("identity")>>],
             t.patches, 1),
           t)

\* APIDryRunRenderer.Render(ctx, cp, cd, t, env).
Render(cp, cd, t, env) ==
    IF ~t.base.valid
    THEN [cp |-> cp, cd |-> cd, env |-> env, err |-> errUnmarshal, log |-> <<>>]
    ELSE RenderUnmarshalled(cp, Unmarshal(t.base, cd), t, env,
                            cd.kind, cd.name, cd.namespace)

\* RenderComposite's patch loop from patch i on; stops at the first error.
RECURSIVE RenderCompositePatches(_, _, _)
RenderCompositePatches(st, patches, i) ==
    IF i > Len(patches) \/ st.err # Nil THEN st
    ELSE RenderCompositePatches(
           Patched(st, Apply(patches[i], st.cp, st.cd, patchTypesToXR),
                   patches[i], i, FALSE),
           patches, i + 1)

\* RenderComposite(ctx, cp, cd, t, env): the environment is ignored.
RenderComposite(cp, cd, t, env) ==
    RenderCompositePatches(
        [cp |-> cp, cd |-> cd, env |-> env, err |-> Nil, log |-> <<>>], t.patches, 1)

(***************************************************************************)
(* Inputs.                                                                 *)
(***************************************************************************)
SeqsUpTo(S, n) == UNION {[1..k -> S] : k \in 0..n}
Range(f) == {f[i] : i \in DOMAIN f}
IsInjective(f) == \A i, j \in DOMAIN f : f[i] = f[j] => i = j

\* The composed resources that exist in the resource store: their names, kinds
\* and the template name recorded in their composition-resource-name annotation.
ResourceNames == {"r1", "r2", "r3"}
KindOf(n) == IF n = "r2" THEN "Cache" ELSE "Bucket"
TemplateNameOf(n) == IF n = "r1" THEN "a" ELSE IF n = "r2" THEN "b" ELSE "legacy"
ExistingReferences ==
    {[kind |-> KindOf(n), name |-> n, namespace |-> "ns"] : n \in ResourceNames}

\* A patch of the model.
Patch(ty, from, to, req) == [type |-> ty, from |-> from, to |-> to, required |-> req]

\* Template bases: a malformed body, or an object of some kind.
InvalidBase == [valid |-> FALSE, obj |-> EmptyObject]
BaseOfKind(k) == [valid |-> TRUE, obj |-> [EmptyObject EXCEPT !.kind = k]]
\* Bases that also set fields the renderer manages.
BaseBusy(k) ==
    [valid |-> TRUE,
     obj |-> [EmptyObject EXCEPT !.kind = k, !.name = "from-base",
                !.namespace = "base-ns", !.generateName = "base-",
                !.labels = [l \in LabelKeys |-> "from-base"],
                !.annotation = "from-base", !.fields = [NoFields EXCEPT !["y"] = "v"]]]
BaseControlled(k) ==
    [valid |-> TRUE, obj |-> [EmptyObject EXCEPT !.kind = k, !.controller = "other-uid"]]

\* Composites: with or without the name-prefix label, with or without field x.
Composite(prefix, x, refs) ==
    [labels |-> [k \in LabelKeys |->
                   IF k = LabelKeyNamePrefixForComposed THEN prefix
                   ELSE IF k = LabelKeyClaimName THEN "claim" ELSE "claim-ns"],
     fields |-> [NoFields EXCEPT !["x"] = x],
     uid |-> "xr-uid",
     refs |-> refs]
CompositeShapes == {<<"acme", "u">>, <<"acme", Absent>>, <<"", "u">>}

\* Environments: none, or one with field x set.
Environment(x) == [present |-> TRUE, fields |-> [NoFields EXCEPT !["x"] = x]]
\* A nil *env.Environment.
NilEnvironment == [present |-> FALSE, fields |-> NoFields]

\* Templates of the Compose model: a Bucket template carries a required patch
\* from the composite's field x to its field y and a patch from its field y to
\* the composite's field y; a Cache template no patch.
ComposePatches(b) ==
    IF b.valid /\ b.obj.kind = "Bucket"
    THEN <<Patch(PatchTypeFromCompositeFieldPath, "x", "y", TRUE),
           Patch(PatchTypeToCompositeFieldPath, "y", "y", FALSE)>>
    ELSE <<>>
ComposeBases == {InvalidBase} \cup {BaseOfKind(k) : k \in Kinds}
ComposeTemplates ==
    {[name |-> n, base |-> b, patches |-> ComposePatches(b)] :
        n \in TemplateNames \cup {Nil}, b \in ComposeBases}

\* Environment patches of the Composition (Spec.Environment), with the
\* request's environment: none and no patch; none and declared patches that
\* would write the environment and fail on it; an environment but no patches
\* declared; a patch that applies; a patch that applies, one that fails and
\* one that would apply.
ComposeEnvironments ==
    {[env |-> NilEnvironment, patches |-> <<>>, declared |-> TRUE],
     [env |-> NilEnvironment,
      patches |-> <<Patch(PatchTypeToEnvironmentFieldPath, "x", "y", FALSE),
                    Patch(PatchTypeFromEnvironmentFieldPath, "x", "y", TRUE)>>,
      declared |-> TRUE],
     [env |-> Environment("v"), patches |-> <<>>, declared |-> FALSE],
     [env |-> Environment("v"),
      patches |-> <<Patch(PatchTypeFromEnvironmentFieldPath, "x", "y", FALSE)>>,
      declared |-> TRUE],
     [env |-> Environment("v"),
      patches |-> <<Patch(PatchTypeFromEnvironmentFieldPath, "x", "y", FALSE),
                    Patch(PatchTypeFromEnvironmentFieldPath, "y", "x", TRUE),
                    Patch(PatchTypeFromEnvironmentFieldPath, "x", "x", FALSE)>>,
      declared |-> TRUE]}


(***************************************************************************)
(* State.                                                                  *)
(***************************************************************************)
VARIABLES
    pc,          \* position of the Compose call
    ct,          \* the Composition's templates (req.Composition.Spec.Resources)
    req,         \* the request's environment and the declared environment patches
    xr,          \* the composite resource
    xr0,         \* the composite resource when Compose was called
    environment, \* the environment object, as patched so far
    refs0,       \* the composite's references when Compose was called
    tas,         \* Compose: tas
    orphaned,    \* references reported by the associator apart from tas
    i,           \* Compose: index of the render loop (1-based)
    refs,        \* Compose: refs
    cds,         \* Compose: cds
    events,      \* Compose: events
    rendered,    \* the Render calls made so far: template index, error and log
    ret,         \* what Compose returned: [cds, err], and the events handed over
    rpc,         \* renderer check: position
    rin,         \* renderer check: the arguments of Render
    rout1,       \* renderer check: result of the first Render
    rout2,       \* renderer check: result of rendering the first result again
    cpc,         \* control-plane client: position of the call
    client,      \* which control-plane client is called: space or cloud
    backend,     \* the API behind the client: control planes, secret, faults
    cret         \* what the client call returned

composeVars == <<pc, ct, req, xr, xr0, environment, refs0, tas, orphaned, i, refs, cds,
                 events, rendered, ret>>
renderVars == <<rpc, rin, rout1, rout2>>
clientVars == <<cpc, client, backend, cret>>
vars == <<composeVars, renderVars, clientVars>>

NoReturn == [cds |-> <<>>, err |-> "none", events |-> <<>>]
NoRender == [cp |-> Composite("", Absent, <<>>), cd |-> EmptyObject,
             env |-> NilEnvironment,
             err |-> Nil, log |-> <<>>]
NoRenderInput == [cp |-> Composite("", Absent, <<>>), cd |-> EmptyObject,
                  t |-> [name |-> Nil, base |-> InvalidBase, patches |-> <<>>],
                  env |-> NilEnvironment]

\* The Compose locals before the call.
ComposeIdle ==
    /\ tas = <<>> /\ orphaned = <<>> /\ i = 1 /\ refs = <<>> /\ cds = <<>>
    /\ events = <<>> /\ rendered = <<>> /\ ret = NoReturn
RenderIdle ==
    /\ rpc = "off" /\ rin = NoRenderInput /\ rout1 = NoRender /\ rout2 = NoRender

\* No control-plane client in use.
NoBackend ==
    [ctps |-> <<>>, fault |-> FALSE, secrets |-> {}, secret |-> "valid",
     secretFault |-> "none"]
NoResponse == [present |-> FALSE, Name |-> "", ConnName |-> "", ConnNamespace |-> "",
               Cfg |-> ""]
NoCall == [op |-> "", name |-> "", resp |-> NoResponse, list |-> <<>>, cfg |-> Nil,
           err |-> Nil, backendErr |-> Nil, panicked |-> FALSE, held |-> ""]
ClientIdle ==
    /\ cpc = "off" /\ client = "off" /\ backend = NoBackend /\ cret = NoCall

\* A Compose call about to start, on any templates, composite and request.
Init ==
    /\ pc = "inline"
    /\ ct \in SeqsUpTo(ComposeTemplates, MaxTemplates)
    /\ req \in ComposeEnvironments
    /\ refs0 \in {r \in SeqsUpTo(ExistingReferences, MaxRefs) : IsInjective(r)}
    /\ \E sh \in CompositeShapes : xr = Composite(sh[1], sh[2], refs0)
    /\ xr0 = xr
    /\ environment = req.env
    /\ ComposeIdle
    /\ RenderIdle
    /\ ClientIdle

(***************************************************************************)
(* PTComposer.Compose, one action per step.                                *)
(***************************************************************************)
\* errors.Wrap(err, message).
Wrap(err, message) == message \o ": " \o err

\* Compose returns (nil, err).
Fail(err) ==
    /\ ret' = [cds |-> <<>>, err |-> err, events |-> <<>>]
    /\ pc' = "done"

\* ComposedTemplates(req.Composition.Spec): inlining the patch sets fails, or
\* yields the templates.
Inline ==
    /\ pc = "inline"
    /\ \/ /\ Fail(Wrap("patch set not found", errInline))
          /\ UNCHANGED <<ct, req, xr, environment, refs0, tas, orphaned, i, refs,
                         cds, events, rendered>>
       \/ /\ pc' = "associate"
          /\ UNCHANGED <<ct, req, xr, environment, refs0, tas, orphaned, i, refs,
                         cds, events, rendered, ret>>
    /\ UNCHANGED <<xr0, renderVars, clientVars>>

\* c.composition.AssociateTemplates(ctx, xr, ct).  Its error is always nil; it
\* returns nothing besides the associations.
Associate ==
    /\ pc = "associate"
    /\ LET a == AssociateTemplates(xr, ct)
       IN /\ a.err = Nil
          /\ tas' = a.tas
          /\ orphaned' = <<>>
    /\ pc' = "environment"
    /\ UNCHANGED <<ct, req, xr, environment, refs0, i, refs, cds, events, rendered, ret>>
    /\ UNCHANGED <<xr0, renderVars, clientVars>>

\* ApplyEnvironmentPatch(p, xr, env): an environment patch between the
\* environment and the composite.
ApplyEnvironmentPatch(p, cp, env) ==
    ApplyToObjects(p, env, cp, patchTypesFromToEnvironment)

\* The environment-patch loop from patch k on; stops at the first error.  r is
\* what ApplyEnvironmentPatch returned for patch k.
RECURSIVE EnvironmentPatches(_, _, _)
\* The environment-patch loop going on after a failed patch.
EnvironmentPatched_Continuing(st, r, patches, k) ==
    IF r.err # Nil
    THEN [EnvironmentPatches(st, patches, k + 1)
             EXCEPT !.err = Wrapf(r.err, errFmtPatchEnvironment, k - 1)]
    ELSE EnvironmentPatches([st EXCEPT !.cp = r.b, !.env = r.a], patches, k + 1)

EnvironmentPatched(st, r, patches, k) ==
    IF r.err # Nil
    THEN [st EXCEPT !.err = Wrapf(r.err, errFmtPatchEnvironment, k - 1)]
    ELSE EnvironmentPatches([st EXCEPT !.cp = r.b, !.env = r.a], patches, k + 1)

EnvironmentPatches(st, patches, k) ==
    IF k > Len(patches) THEN st
    ELSE EnvironmentPatched(st, ApplyEnvironmentPatch(patches[k], st.cp, st.env),
                            patches, k)

\* The guard of the environment patches with the request's environment left
\* out of it.
EnvironmentPatchesRun_Declared(r) == r.declared

\* req.Environment != nil && req.Composition.Spec.Environment != nil.
EnvironmentPatchesRun(r) == r.env.present /\ r.declared

\* The environment patches run when the request has an environment and the
\* Composition declares environment patches.
PatchEnvironment ==
    /\ pc = "environment"
    /\ \E st \in {IF EnvironmentPatchesRun(req)
                  THEN EnvironmentPatches([cp |-> xr, env |-> environment, err |-> Nil],
                                          req.patches, 1)
                  ELSE [cp |-> xr, env |-> environment, err |-> Nil]} :
          /\ xr' = st.cp
          /\ environment' = st.env
          /\ IF st.err # Nil
             THEN Fail(st.err)
             ELSE pc' = "render" /\ ret' = ret
    /\ UNCHANGED <<ct, req, refs0, tas, orphaned, i, refs, cds, events, rendered>>
    /\ UNCHANGED <<xr0, renderVars, clientVars>>

\* pointer.StringDeref(ta.Template.Name, strconv.Itoa(i)), i the 0-based index.
ResourceName(t, k) == IF t.name # Nil THEN t.name ELSE ToString(k)

\* ComposedResourceState{ResourceName, TemplateRenderErr, Template, Resource}.
ComposedResourceState(name, rerr, t, r) ==
    [ResourceName |-> name, TemplateRenderErr |-> rerr, Template |-> t, Resource |-> r]

\* The render loop leaving one template before the end.
InLoop_SkipLast(k, n, done) == k < n

\* The render loop leaving at the first render error.
InLoop_UntilError(k, n, done) ==
    /\ k <= n
    /\ \A j \in DOMAIN done : done[j].TemplateRenderErr = Nil

\* for i := range tas: whether iteration k (1-based) of n runs.
InLoop(k, n, done) == k <= n

\* A reference that keeps the name of the resource only.
RenderedReference_NameOnly(r) == [EmptyReference EXCEPT !.name = r.name]

\* refs[i] = *meta.ReferenceTo(r, r.GetObjectKind().GroupVersionKind()).
RenderedReference(r) == ReferenceTo(r)

\* One iteration of the render loop: render template i, record its state and
\* its reference; a render error adds a warning event and nothing else.
RenderOne ==
    /\ pc = "render"
    /\ InLoop(i, Len(tas), cds)
    /\ \E ta \in {tas[i]} :
       \E name \in {ResourceName(ta.Template, i - 1)} :
       \E res \in {Render(xr, FromReference(ta.Reference), ta.Template, environment)} :
          /\ xr' = res.cp
          /\ environment' = res.env
          /\ events' = IF res.err # Nil
                       THEN Append(events, [type |-> "Warning", name |-> name,
                                            err |-> res.err])
                       ELSE events
          /\ cds' = Append(cds, ComposedResourceState(name, res.err, ta.Template, res.cd))
          /\ refs' = Append(refs, RenderedReference(res.cd))
          /\ rendered' = Append(rendered, [index |-> i, err |-> res.err,
                                            log |-> res.log])
    /\ i' = i + 1
    /\ UNCHANGED <<pc, ct, req, refs0, tas, orphaned, ret>>
    /\ UNCHANGED <<xr0, renderVars, clientVars>>

\* xr.SetResourceReferences(refs), after the loop.
SetResourceReferences ==
    /\ pc = "render"
    /\ ~InLoop(i, Len(tas), cds)
    /\ xr' = [xr EXCEPT !.refs = refs]
    /\ pc' = "return"
    /\ UNCHANGED <<ct, req, environment, refs0, tas, orphaned, i, refs, cds, events,
                   rendered, ret>>
    /\ UNCHANGED <<xr0, renderVars, clientVars>>

\* The events that leave Compose with its return values: Compose returns
\* ([]ComposedResourceState, error), the events slice is not among them.
ReturnedEvents(evs) == <<>>

\* return cds, nil.
Return ==
    /\ pc = "return"
    /\ ret' = [cds |-> cds, err |-> Nil, events |-> ReturnedEvents(events)]
    /\ pc' = "done"
    /\ UNCHANGED <<ct, req, xr, environment, refs0, tas, orphaned, i, refs, cds,
                   events, rendered>>
    /\ UNCHANGED <<xr0, renderVars, clientVars>>

Next == Inline \/ Associate \/ PatchEnvironment \/ RenderOne \/ SetResourceReferences
        \/ Return

Spec == Init /\ [][Next]_vars


(***************************************************************************)
(* The renderers on their own: Render on any composite, resource, template *)
(* and environment, then Render again on the resource it produced; or      *)
(* RenderComposite on a rendered resource.                                 *)
(***************************************************************************)
\* One patch of each type; the FromComposite patch is required.
RenderPatchCatalog ==
    {Patch(PatchTypeFromCompositeFieldPath, "x", "y", TRUE),
     Patch(PatchTypeCombineFromComposite, "x", "x", FALSE),
     Patch(PatchTypeToCompositeFieldPath, "y", "y", FALSE),
     Patch(PatchTypeCombineToComposite, "y", "x", FALSE),
     Patch(PatchTypeFromEnvironmentFieldPath, "x", "x", FALSE),
     Patch(PatchTypeCombineFromEnvironment, "x", "y", FALSE),
     Patch(PatchTypeToEnvironmentFieldPath, "y", "x", FALSE),
     Patch(PatchTypeCombineToEnvironment, "x", "y", FALSE)}
RenderBases ==
    {InvalidBase, BaseOfKind("Bucket"), BaseBusy("Cache"), BaseControlled("Bucket")}
RenderTemplates ==
    {[name |-> n, base |-> b, patches |-> ps] :
        n \in {Nil, "a"}, b \in RenderBases,
        ps \in SeqsUpTo(RenderPatchCatalog, MaxPatches)}
\* Resources as Compose hands them to Render: built from a reference.
RenderResources ==
    {FromReference(r) :
        r \in {EmptyReference} \cup {q \in ExistingReferences : q.name \in {"r1", "r2"}}}

ComposeOff ==
    /\ pc = "off" /\ ct = <<>> /\ req \in {r \in ComposeEnvironments : ~r.env.present}
    /\ xr = Composite("", Absent, <<>>) /\ xr0 = xr /\ environment = NilEnvironment
    /\ refs0 = <<>> /\ ComposeIdle

InitRender ==
    /\ ComposeOff
    /\ rpc = "input"
    /\ \E sh \in CompositeShapes, cd \in RenderResources, t \in RenderTemplates,
          env \in {NilEnvironment, Environment("v")} :
          rin = [cp |-> Composite(sh[1], sh[2], <<>>), cd |-> cd, t |-> t, env |-> env]
    /\ rout1 = NoRender
    /\ rout2 = NoRender
    /\ ClientIdle

\* Render(cp, cd, t, env) on the input.
RenderFirst ==
    /\ rpc = "input"
    /\ rout1' = Render(rin.cp, rin.cd, rin.t, rin.env)
    /\ rpc' = "once"
    /\ UNCHANGED <<rin, rout2>>
    /\ UNCHANGED <<composeVars, clientVars>>

\* Render again on the same objects: the composite, the resource and the
\* environment as the first Render left them, and the same template.
RenderAgain ==
    /\ rpc = "once"
    /\ rout2' = Render(rout1.cp, rout1.cd, rin.t, rout1.env)
    /\ rpc' = "twice"
    /\ UNCHANGED <<rin, rout1>>
    /\ UNCHANGED <<composeVars, clientVars>>

\* Render again on the resource the first Render produced, with the same
\* composite and template and an environment equal to the one the first
\* Render was given (a new snapshot, not the object the first Render wrote).
RenderAgainWithSnapshot ==
    /\ rpc = "once"
    /\ rout2' = Render(rout1.cp, rout1.cd, rin.t, rin.env)
    /\ rpc' = "snapshot"
    /\ UNCHANGED <<rin, rout1>>
    /\ UNCHANGED <<composeVars, clientVars>>

\* RenderComposite on the composite and the resource the first Render produced.
RenderCompositeOnce ==
    /\ rpc = "once"
    /\ rout2' = RenderComposite(rout1.cp, rout1.cd, rin.t, rout1.env)
    /\ rpc' = "composite"
    /\ UNCHANGED <<rin, rout1>>
    /\ UNCHANGED <<composeVars, clientVars>>

NextRender ==
    RenderFirst \/ RenderAgain \/ RenderAgainWithSnapshot \/ RenderCompositeOnce

SpecRender == InitRender /\ [][NextRender]_vars


(***************************************************************************)
(* Properties of template association.                                     *)
(***************************************************************************)
\* AssociateTemplates has returned in this Compose call.
Associated ==
    \/ pc \in {"environment", "render", "return"}
    \/ pc = "done" /\ ret.err # Wrap("patch set not found", errInline)

AllNamed(templates) == FirstUnnamed(templates, 1) = 0
UniquelyNamed(templates) ==
    /\ AllNamed(templates)
    /\ \A j, k \in DOMAIN templates : templates[j].name = templates[k].name => j = k

\* The references the associations carry.
AssociatedReferences == {tas[k].Reference : k \in DOMAIN tas} \ {EmptyReference}

\* C1: AssociateTemplates returns exactly one association per input template,
\* and association k carries template k, on the positional path and on the
\* all-named path, whatever the composite's references.
C1_OneAssociationPerTemplate ==
    Associated =>
        /\ Len(tas) = Len(ct)
        /\ \A k \in 1..Len(ct) : tas[k].Template = ct[k]

\* C1 witness: two templates, one of them unnamed, associated with a single
\* existing reference.
C1_Witness ==
    /\ Associated
    /\ Len(ct) = 2 /\ ~AllNamed(ct) /\ Len(refs0) = 1
    /\ Len(tas) = 2 /\ tas[2].Template = ct[2]

\* C2: when at least one template has no name, association is positional:
\* association k carries reference k while there is one and the empty reference
\* after that, and references beyond the templates are in no association, also
\* when the other templates are named.
C2_PositionalFallback ==
    (Associated /\ ~AllNamed(ct)) =>
        /\ \A k \in 1..Len(tas) :
              tas[k].Reference = IF k <= Len(refs0) THEN refs0[k] ELSE EmptyReference
        /\ \A k \in 1..Len(refs0) :
              k > Len(ct) => refs0[k] \notin AssociatedReferences

\* C2 witness: a named and an unnamed template, positionally paired with the
\* composite's first two references while a third reference is left out.
C2_Witness ==
    /\ Associated
    /\ Len(ct) = 2 /\ ~AllNamed(ct) /\ \E k \in 1..2 : ct[k].name # Nil
    /\ Len(refs0) = 3
    /\ tas[1].Reference = refs0[1] /\ tas[2].Reference = refs0[2]

\* C3 as claimed: when every template has a unique name, each existing
\* reference whose recorded template name equals the name of a template is
\* carried by that template's association, and no reference is in two
\* associations.
C3_NamedReferencesPaired ==
    (Associated /\ UniquelyNamed(ct)) =>
        /\ \A k \in 1..Len(ct) : \A r \in Range(refs0) :
              TemplateNameOf(r.name) = ct[k].name => tas[k].Reference = r
        /\ \A j, k \in 1..Len(tas) :
              (tas[j].Reference = tas[k].Reference
               /\ tas[j].Reference # EmptyReference) => j = k

\* C4 as claimed: every existing reference that is in no association is
\* reported in the orphaned-reference output.
C4_DroppedReferencesReported ==
    Associated =>
        \A r \in Range(refs0) :
            r \in AssociatedReferences \/ r \in Range(orphaned)

(***************************************************************************)
(* Properties of Compose.                                                  *)
(***************************************************************************)
Returned == pc = "done" /\ ret.err = Nil

\* C5: Compose renders every associated template, in template order, whichever
\* renders fail: it returns one state per template, state k has a render error
\* exactly when the k-th Render call returned one, and the loop never stops
\* early.
C5_PartialFailureIsolation ==
    /\ pc = "render" => (Len(cds) = i - 1 /\ Len(rendered) = i - 1)
    /\ \A k \in 1..Len(rendered) : rendered[k].index = k
    /\ Returned =>
          /\ Len(ret.cds) = Len(ct)
          /\ Len(rendered) = Len(ct)
          /\ \A k \in 1..Len(ct) :
                /\ ret.cds[k].Template = ct[k]
                /\ (ret.cds[k].TemplateRenderErr # Nil) <=> (rendered[k].err # Nil)
                /\ ret.cds[k].TemplateRenderErr = rendered[k].err

\* C5 witness: two templates, the first render failed and the second was still
\* made and succeeded.
C5_Witness ==
    /\ Returned
    /\ Len(ret.cds) = 2
    /\ ret.cds[1].TemplateRenderErr # Nil
    /\ ret.cds[2].TemplateRenderErr = Nil
    /\ rendered[2].index = 2

\* C6: when Compose returns without error the composite's reference list has
\* one entry per template, entry k being the reference to the resource of state
\* k, failed renders included; the list is assigned only after the last render
\* and before the return.
C6_ReferencesSetBeforeReturn ==
    /\ (pc \in {"return", "done"} /\ (pc = "done" => ret.err = Nil)) =>
          /\ Len(xr.refs) = Len(ct)
          /\ Len(cds) = Len(ct)
          /\ \A k \in 1..Len(ct) :
                /\ xr.refs[k].kind = cds[k].Resource.kind
                /\ xr.refs[k].name = cds[k].Resource.name
                /\ xr.refs[k].namespace = cds[k].Resource.namespace
    /\ Returned => ret.cds = cds
    /\ pc \in {"inline", "associate", "environment", "render"} => xr.refs = refs0

\* C6 witness: Compose returned two states, the first with a render error, and
\* the composite's references, which differ from the ones it had, name the
\* resources of both states.
C6_Witness ==
    /\ Returned
    /\ Len(ret.cds) = 2
    /\ ret.cds[1].TemplateRenderErr # Nil
    /\ xr.refs # refs0
    /\ xr.refs[2].kind = ret.cds[2].Resource.kind /\ xr.refs[2].kind # ""
    /\ xr.refs[2].name = ret.cds[2].Resource.name /\ xr.refs[2].name # ""


(***************************************************************************)
(* Properties of the renderers.                                            *)
(***************************************************************************)
\* The first Render call has returned.
RenderedOnce == rpc \in {"once", "twice", "snapshot", "composite"}

\* The patch entries of a render log.
PatchesApplied(log) == {log[k] : k \in {j \in DOMAIN log : log[j].step = "patch"}}

\* C7: a resource that had a kind before Render and whose template base
\* unmarshals to another kind gets the kind-changed error, never success; a
\* resource without a prior kind is never rejected for a kind change.
C7_KindChangeRejected ==
    RenderedOnce =>
        /\ (rin.cd.kind # "" /\ rin.t.base.valid
            /\ rin.t.base.obj.kind # rin.cd.kind) => rout1.err = errKindChanged
        /\ rin.cd.kind = "" => rout1.err # errKindChanged
        /\ rout1.err = Nil => (rin.cd.kind = "" \/ rout1.cd.kind = rin.cd.kind)

\* C7 witness: an existing Bucket rendered with a template whose base is a
\* Cache was rejected with the kind-changed error.
C7_Witness ==
    /\ rpc = "once"
    /\ rin.cd.kind = "Bucket" /\ rin.cd.name = "r1"
    /\ rin.t.base.valid /\ rin.t.base.obj.kind = "Cache"
    /\ rout1.err = errKindChanged

\* C8 as claimed: a Render that fails with the kind-changed error leaves the
\* composed resource it was handed as it was before the call.
C8_KindChangeLeavesResourceUntouched ==
    (RenderedOnce /\ rout1.err = errKindChanged) => rout1.cd = rin.cd

\* C9: Render applies no patch of the ToComposite group and leaves the
\* composite as it was, whatever the template's patches; RenderComposite
\* applies patches of the ToComposite group only.
C9_PatchDirectionality ==
    /\ RenderedOnce =>
          /\ \A e \in PatchesApplied(rout1.log) : e.type \notin patchTypesToXR
          /\ rout1.cp = rin.cp
    /\ rpc = "twice" =>
          /\ \A e \in PatchesApplied(rout2.log) : e.type \notin patchTypesToXR
          /\ rout2.cp = rin.cp
    /\ rpc = "composite" =>
          \A e \in PatchesApplied(rout2.log) : e.type \in patchTypesToXR

\* C9 witness: a template mixing a FromComposite, a ToComposite and an
\* environment patch was rendered with success, its FromComposite patch
\* applied, and RenderComposite then applied its ToComposite patch and changed
\* the composite.
C9_Witness ==
    /\ rpc = "composite"
    /\ rout1.err = Nil
    /\ {rin.t.patches[k].type : k \in DOMAIN rin.t.patches} =
          {PatchTypeFromCompositeFieldPath, PatchTypeToCompositeFieldPath,
           PatchTypeToEnvironmentFieldPath}
    /\ \E e \in PatchesApplied(rout1.log) : e.type = PatchTypeFromCompositeFieldPath
    /\ \E e \in PatchesApplied(rout2.log) : e.type = PatchTypeToCompositeFieldPath
    /\ rout2.cp # rin.cp

\* C10: for an already named resource, rendering the output of a successful
\* Render again, with the same template, composite and environment, succeeds
\* and yields the same resource, field for field, and the same composite and
\* environment as the first render left.  (A second render handed the
\* environment object the first one wrote is another call: it yields the
\* same resource when the first render left the environment as it was.)
C10_IdempotentRender ==
    /\ (rpc = "snapshot" /\ rin.cd.name # "" /\ rout1.err = Nil) =>
          /\ rout2.err = Nil
          /\ rout2.cd = rout1.cd
          /\ rout2.cp = rout1.cp
          /\ rout2.env = rout1.env
    /\ (rpc = "twice" /\ rin.cd.name # "" /\ rout1.err = Nil /\ rout1.env = rin.env) =>
          /\ rout2.err = Nil
          /\ rout2.cd = rout1.cd

\* C10 witness: a named resource was rendered twice with the same
\* environment and a template whose patches from the composite, to the
\* environment and from the environment were applied; the first render
\* changed the resource and wrote the environment, and the second render
\* gave the same resource.
C10_Witness ==
    /\ rpc = "snapshot"
    /\ rin.cd.name = "r2"
    /\ rout1.err = Nil
    /\ rout1.cd # rin.cd
    /\ \E e \in PatchesApplied(rout1.log) : e.type = PatchTypeFromCompositeFieldPath
    /\ \E e \in PatchesApplied(rout1.log) : e.type = PatchTypeToEnvironmentFieldPath
    /\ \E e \in PatchesApplied(rout1.log) : e.type = PatchTypeFromEnvironmentFieldPath
    /\ rout1.env # rin.env
    /\ rout2.cd = rout1.cd



(***************************************************************************)
(* Properties of Compose's fatal errors, events and references.            *)
(***************************************************************************)
\* Compose returned (nil, err).
Failed == pc = "done" /\ ret.err # Nil

\* C12 as claimed: when Compose returns a fatal error no composed resource was
\* rendered and the composite, every field of it, is as it was before the
\* call, also when environment patches before the failing one were applied.
C12_FatalErrorLeavesCompositeUnmodified ==
    Failed => (rendered = <<>> /\ cds = <<>> /\ xr = xr0)


\* The states of a Compose result whose render failed.
FailedStates(states) == {k \in DOMAIN states : states[k].TemplateRenderErr # Nil}

\* C13 as claimed: the caller of Compose gets one warning event per composed
\* resource whose render failed, naming that resource, and no other event.
C13_WarningEventPerFailedRender ==
    Returned =>
        /\ \A k \in FailedStates(ret.cds) :
              \E e \in Range(ret.events) :
                  e.type = "Warning" /\ e.name = ret.cds[k].ResourceName
        /\ Len(ret.events) = Cardinality(FailedStates(ret.cds))


\* The steps of a render log that stamp labels, annotation or owner.
StampsApplied(log) ==
    {log[k].step : k \in DOMAIN log} \cap {"identity", "labels", "annotation", "controller"}

\* C14: when the composite has no name-prefix label, the render of every
\* template whose base unmarshals and whose kind did not change fails with the
\* missing-name-prefix error, with no patch applied and no label, annotation or
\* owner reference stamped; Compose records it as that resource's error and
\* still renders the other templates.
C14_MissingNamePrefix ==
    xr0.labels[LabelKeyNamePrefixForComposed] = "" =>
        /\ \A k \in 1..Len(rendered) :
              (/\ tas[k].Template.base.valid
               /\ tas[k].Reference.kind \in {"", tas[k].Template.base.obj.kind}) =>
                  /\ rendered[k].err = errNamePrefix
                  /\ cds[k].TemplateRenderErr = errNamePrefix
                  /\ PatchesApplied(rendered[k].log) = {}
                  /\ StampsApplied(rendered[k].log) = {}
                  /\ cds[k].Resource = tas[k].Template.base.obj
        /\ Returned => Len(ret.cds) = Len(ct)

\* C14 witness: a composite without the label, two templates; the first, a
\* Bucket template with patches, failed with the missing-name-prefix error and
\* the second was rendered after it.
C14_Witness ==
    /\ Returned
    /\ xr0.labels[LabelKeyNamePrefixForComposed] = ""
    /\ Len(ret.cds) = 2
    /\ ret.cds[1].Template.base.valid /\ ret.cds[1].Template.patches # <<>>
    /\ ret.cds[1].TemplateRenderErr = errNamePrefix
    /\ rendered[2].index = 2


\* The scenario of C15: named templates with valid bases, a composite with a
\* name-prefix label and without references, and Compose returned its states.
NamedScenario ==
    /\ Returned
    /\ AllNamed(ct)
    /\ \A k \in 1..Len(ct) : ct[k].base.valid
    /\ refs0 = <<>>
    /\ xr0.labels[LabelKeyNamePrefixForComposed] # ""

\* Every required patch of the template from the composite finds its source
\* field on the composite.
PatchSourcesResolve(t, cp) ==
    \A j \in 1..Len(t.patches) :
        (t.patches[j].type \in patchTypesFromXR /\ t.patches[j].required) =>
            cp.fields[t.patches[j].from] # Absent

\* C15 as claimed: in the scenario Compose returns one state per template, each
\* without render error, with an empty name, the generate name P-, and the
\* template's name as resource name; the composite has one reference per
\* template.
C15_NamedScenarioAsClaimed ==
    NamedScenario =>
        /\ Len(ret.cds) = Len(ct)
        /\ Len(xr.refs) = Len(ct)
        /\ \A k \in 1..Len(ct) :
              /\ ret.cds[k].TemplateRenderErr = Nil
              /\ ret.cds[k].Resource.name = ""
              /\ ret.cds[k].Resource.generateName =
                    xr0.labels[LabelKeyNamePrefixForComposed] \o "-"
              /\ ret.cds[k].ResourceName = ct[k].name

\* C15, amended: as claimed, except that a state has no render error exactly
\* when the patches of its template apply and its base names no other
\* controller; a template with a required patch whose source field is missing
\* on the composite gets a render error.
C15_NamedScenario ==
    NamedScenario =>
        /\ Len(ret.cds) = Len(ct)
        /\ Len(xr.refs) = Len(ct)
        /\ \A k \in 1..Len(ct) :
              /\ (ret.cds[k].TemplateRenderErr = Nil) <=>
                    (/\ PatchSourcesResolve(ct[k], xr0)
                     /\ ct[k].base.obj.controller \in {"", xr0.uid})
              /\ ret.cds[k].Resource.name = ""
              /\ ret.cds[k].Resource.generateName =
                    xr0.labels[LabelKeyNamePrefixForComposed] \o "-"
              /\ ret.cds[k].ResourceName = ct[k].name

\* C15 witness: the scenario with a Bucket template "a", whose patch from the
\* composite applied, and a Cache template "b"; both states without error and
\* with generate name acme-.
C15_Witness ==
    /\ NamedScenario
    /\ Len(ct) = 2
    /\ ct[1].name = "a" /\ ct[1].base.obj.kind = "Bucket"
    /\ ct[2].name = "b" /\ ct[2].base.obj.kind = "Cache"
    /\ ret.cds[1].TemplateRenderErr = Nil /\ ret.cds[2].TemplateRenderErr = Nil
    /\ ret.cds[1].Resource.fields["y"] = "u"
    /\ ret.cds[2].Resource.generateName = "acme-"
    /\ Len(xr.refs) = 2


\* C16 as claimed: a Compose call applies the ToComposite patches of the
\* associated templates to the composite: once Compose has returned, the
\* destination field of every such patch whose source field is set on the
\* rendered resource holds that value.
C16_ToCompositePatchesApplied ==
    Returned =>
        \A k \in 1..Len(ret.cds) : \A j \in 1..Len(ret.cds[k].Template.patches) :
            (/\ ret.cds[k].TemplateRenderErr = Nil
             /\ ret.cds[k].Template.patches[j].type \in patchTypesToXR
             /\ ret.cds[k].Resource.fields[ret.cds[k].Template.patches[j].from] # Absent)
            => xr.fields[ret.cds[k].Template.patches[j].to] =
                  ret.cds[k].Resource.fields[ret.cds[k].Template.patches[j].from]


\* C17 as claimed: after Compose has returned, the composite's reference for
\* every template that was associated with an existing named resource is that
\* same reference (name, namespace and kind), also when the render of the
\* template failed.
C17_ExistingReferencesKept ==
    Returned =>
        \A k \in 1..Len(tas) :
            tas[k].Reference.name # "" => xr.refs[k] = tas[k].Reference


\* The positions of the patch entries of a render log.
PatchSteps(log) == {k \in DOMAIN log : log[k].step = "patch"}

\* The patches of template t that Render applies with environment env.
RenderedPatchIndexes(t, env) ==
    {j \in DOMAIN t.patches :
        \/ t.patches[j].type \in patchTypesFromXR
        \/ env.present /\ t.patches[j].type \in patchTypesFromToEnvironment}

\* C18 as claimed: in a composed render no environment patch is applied
\* before a composite-sourced patch of the same template.
C18_EnvironmentPatchesAfterComposite ==
    RenderedOnce =>
        \A a, b \in PatchSteps(rout1.log) :
            a < b => ~(/\ rout1.log[a].type \in patchTypesFromToEnvironment
                       /\ rout1.log[b].type \in patchTypesFromXR)

\* C18: Render applies the composite-sourced and the environment patches of
\* a template interleaved, in the order of the template's patch list: the
\* applied patches are logged with increasing list indexes and their own
\* types, and a successful render applied exactly the composite-sourced
\* patches and, with an environment, the environment patches.
C18_PatchesInListOrder ==
    RenderedOnce =>
        /\ \A a, b \in PatchSteps(rout1.log) :
              a < b => rout1.log[a].index < rout1.log[b].index
        /\ \A a \in PatchSteps(rout1.log) :
              /\ rout1.log[a].index \in RenderedPatchIndexes(rin.t, rin.env)
              /\ rout1.log[a].type = rin.t.patches[rout1.log[a].index].type
        /\ rout1.err = Nil =>
              {rout1.log[a].index : a \in PatchSteps(rout1.log)}
                  = RenderedPatchIndexes(rin.t, rin.env)

\* A successful render that applied an environment patch before a
\* composite-sourced patch listed after it, the composite value winning on
\* the shared destination.
C18_Witness ==
    /\ RenderedOnce
    /\ rout1.err = Nil
    /\ Len(rin.t.patches) = 2
    /\ rin.t.patches[1].type = PatchTypeCombineFromEnvironment
    /\ rin.t.patches[2].type = PatchTypeFromCompositeFieldPath
    /\ \E a, b \in PatchSteps(rout1.log) :
          /\ a < b
          /\ rout1.log[a].type = PatchTypeCombineFromEnvironment
          /\ rout1.log[b].type = PatchTypeFromCompositeFieldPath
    /\ rout1.cd.fields["y"] = rin.cp.fields["x"]
    /\ rout1.cd.fields["y"] # rin.env.fields["x"]


\* The positions of the entries of a render log for step s.
StepsOf(log, s) == {k \in DOMAIN log : log[k].step = s}

\* C19: after a successful render the three composed labels of the resource
\* are the composite's, whatever the base set them to, and the labels are
\* stamped once, after every applied patch.
C19_LabelsStampedAfterPatches ==
    (RenderedOnce /\ rout1.err = Nil) =>
        /\ \A k \in LabelKeys : rout1.cd.labels[k] = rin.cp.labels[k]
        /\ Cardinality(StepsOf(rout1.log, "labels")) = 1
        /\ \A l \in StepsOf(rout1.log, "labels") :
              \A a \in PatchSteps(rout1.log) : a < l

\* A successful render of a base that sets the three labels itself, with a
\* patch applied: the labels are the composite's.
C19_Witness ==
    /\ RenderedOnce
    /\ rout1.err = Nil
    /\ \A k \in LabelKeys : rin.t.base.obj.labels[k] \notin {"", rin.cp.labels[k]}
    /\ PatchSteps(rout1.log) # {}
    /\ \A k \in LabelKeys : rout1.cd.labels[k] = rin.cp.labels[k]

\* C20: after a successful render the controller of the resource is the
\* composite and setting it was the last mutation; a render never succeeds
\* with another controller, and when the base names another controller the
\* render that gets that far returns the controller reference error.
C20_ControllerReferenceLast ==
    RenderedOnce =>
        /\ rout1.err = Nil =>
              /\ rout1.cd.controller = rin.cp.uid
              /\ StepsOf(rout1.log, "controller") = {Len(rout1.log)}
        /\ rout1.err = errSetControllerRef <=>
              /\ StampsApplied(rout1.log) \cap {"labels"} # {}
              /\ rin.t.base.obj.controller \notin {"", rin.cp.uid}
        /\ rout1.err # Nil => StepsOf(rout1.log, "controller") = {}

\* A successful render of a named template with a patch applied: labels and
\* annotation were written and the controller reference came last.
C20_Witness ==
    /\ RenderedOnce
    /\ rout1.err = Nil
    /\ rin.t.name # Nil
    /\ PatchSteps(rout1.log) # {}
    /\ rout1.cd.controller = rin.cp.uid
    /\ rout1.log[Len(rout1.log)].step = "controller"
    /\ rout1.log[Len(rout1.log) - 1].step = "annotation"


\* C21 as claimed: once Compose has returned, every successfully rendered
\* resource carries a resource-name annotation equal to the ResourceName of
\* its state: the template's name, or the template's index as a decimal
\* string when the template has no name.
C21_ResourceNameAnnotation ==
    Returned =>
        \A k \in 1..Len(ret.cds) :
            ret.cds[k].TemplateRenderErr = Nil =>
                ret.cds[k].Resource.annotation = ret.cds[k].ResourceName


\* C22 as claimed: a successful render keeps the name and namespace the
\* resource had, and writes the generate-name prefix only on a resource that
\* had no name (a named resource keeps the generate name of the base).
C22_GenerateNameOnlyWhenUnnamed ==
    (RenderedOnce /\ rout1.err = Nil) =>
        /\ rin.cd.name # "" =>
              /\ rout1.cd.name = rin.cd.name
              /\ rout1.cd.namespace = rin.cd.namespace
        /\ rin.cd.name # "" => rout1.cd.generateName = rin.t.base.obj.generateName

\* C22: a successful render leaves the resource with the name and namespace
\* it had before, whatever the base contains, and with the composite's name
\* prefix followed by "-" as generate name, whether it had a name or not.
C22_IdentityRestored ==
    (RenderedOnce /\ rout1.err = Nil) =>
        /\ rout1.cd.name = rin.cd.name
        /\ rout1.cd.namespace = rin.cd.namespace
        /\ rout1.cd.generateName =
              rin.cp.labels[LabelKeyNamePrefixForComposed] \o "-"

\* A successful render of a named resource over a base that carries another
\* name, namespace and generate name.
C22_Witness ==
    /\ RenderedOnce
    /\ rout1.err = Nil
    /\ rin.cd.name # ""
    /\ rin.t.base.obj.name \notin {"", rin.cd.name}
    /\ rin.t.base.obj.namespace \notin {"", rin.cd.namespace}
    /\ rin.t.base.obj.generateName # ""
    /\ rout1.cd.name = rin.cd.name
    /\ rout1.cd.generateName # rin.t.base.obj.generateName


\* The first render got as far as its patch loop.
PatchLoopReached ==
    /\ rin.t.base.valid
    /\ ~KindChanged(rin.cd.kind, rin.t.base.obj)
    /\ ~NamePrefixMissing(rin.cp)

\* The required composite-sourced patches of t whose source field the
\* composite does not have.
FailingPatches(t, cp) ==
    {j \in DOMAIN t.patches :
        /\ t.patches[j].type \in patchTypesFromXR
        /\ t.patches[j].required
        /\ cp.fields[t.patches[j].from] = Absent}

\* The error Render returns when patch j (1-based in the model) fails.
PatchError(j) == Wrapf(errMissingRequiredField, errFmtPatch, j - 1)

\* C23: the first failing patch stops the render.  When a patch of the
\* template fails, Render returns that patch's error wrapped with the index
\* of the first failing patch; the failing patch is the last one applied, no
\* patch after it is applied, and labels, annotation and controller
\* reference are not written.
C23_FirstPatchFailureStops ==
    RenderedOnce =>
        /\ (PatchLoopReached /\ FailingPatches(rin.t, rin.cp) # {}) =>
              \E j \in FailingPatches(rin.t, rin.cp) :
                 /\ \A m \in FailingPatches(rin.t, rin.cp) : j <= m
                 /\ rout1.err = PatchError(j)
        /\ \A j \in DOMAIN rin.t.patches :
              rout1.err = PatchError(j) =>
                 /\ rout1.log[Len(rout1.log)] = LogPatch(j, rin.t.patches[j].type)
                 /\ \A a \in PatchSteps(rout1.log) : rout1.log[a].index <= j
                 /\ StampsApplied(rout1.log) = {"identity"}
                 /\ rout1.cd.labels = rin.t.base.obj.labels
                 /\ rout1.cd.annotation = rin.t.base.obj.annotation
                 /\ rout1.cd.controller = rin.t.base.obj.controller

\* A render whose second patch fails after the first was applied, with a
\* third patch that would have applied left out.
C23_Witness ==
    /\ RenderedOnce
    /\ Len(rin.t.patches) = 3
    /\ rin.t.name # Nil
    /\ rin.t.patches[3].type \in patchTypesFromXR
    /\ rout1.err = PatchError(2)
    /\ PatchSteps(rout1.log) # {}
    /\ \E a \in PatchSteps(rout1.log) : rout1.log[a].index = 1
    /\ \A a \in PatchSteps(rout1.log) : rout1.log[a].index # 3
    /\ rout1.cd.controller = ""


\* The composite and environment ApplyEnvironmentPatch leaves for patch p.
EnvironmentPatchResult(st, p) ==
    [cp |-> ApplyEnvironmentPatch(p, st.cp, st.env).b,
     env |-> ApplyEnvironmentPatch(p, st.cp, st.env).a]

\* The composite and environment after the first n declared environment
\* patches were applied, in declared order, to the composite and environment
\* the call started with.
RECURSIVE EnvironmentPrefix(_)
EnvironmentPrefix(n) ==
    IF n = 0 THEN [cp |-> xr0, env |-> req.env]
    ELSE EnvironmentPatchResult(EnvironmentPrefix(n - 1), req.patches[n])

\* The number of environment patches Compose is to run.
EnvironmentPatchCount ==
    IF req.env.present /\ req.declared THEN Len(req.patches) ELSE 0

\* The error Compose returns when environment patch j (1-based in the model)
\* fails.
EnvironmentPatchError(j) ==
    Wrapf(ApplyEnvironmentPatch(req.patches[j], EnvironmentPrefix(j - 1).cp,
                                EnvironmentPrefix(j - 1).env).err,
          errFmtPatchEnvironment, j - 1)

\* C24: Compose runs the declared environment patches only when the request
\* has an environment and the Composition declares them, in declared order,
\* after the association and before the first render.  With a nil environment
\* or no declaration no patch runs, whatever the declared list holds.  Up to the environment
\* step composite and environment are untouched; from the first render on
\* they carry the effect of every declared patch in order; and a failure at
\* patch j makes Compose return the error with index j, with the patches
\* before j applied, none after j, and nothing rendered.
C24_EnvironmentPatchesBeforeRender ==
    /\ pc \in {"inline", "associate", "environment"} =>
          /\ xr = xr0 /\ environment = req.env /\ rendered = <<>>
          /\ pc = "environment" => Len(tas) = Len(ct)
    /\ (pc \in {"render", "return"} \/ Returned) =>
          /\ xr.fields = EnvironmentPrefix(EnvironmentPatchCount).cp.fields
          /\ environment = EnvironmentPrefix(EnvironmentPatchCount).env
          /\ \A j \in 1..EnvironmentPatchCount :
                ApplyEnvironmentPatch(req.patches[j], EnvironmentPrefix(j - 1).cp,
                                      EnvironmentPrefix(j - 1).env).err = Nil
    /\ (Failed /\ ret.err # Wrap("patch set not found", errInline)) =>
          /\ rendered = <<>> /\ cds = <<>> /\ ret.cds = <<>>
          /\ \E j \in 1..EnvironmentPatchCount :
                /\ ret.err = EnvironmentPatchError(j)
                /\ ApplyEnvironmentPatch(req.patches[j], EnvironmentPrefix(j - 1).cp,
                                         EnvironmentPrefix(j - 1).env).err # Nil
                /\ xr = EnvironmentPrefix(j - 1).cp
                /\ environment = EnvironmentPrefix(j - 1).env
    /\ (~(req.env.present /\ req.declared) /\ pc \notin {"inline", "associate"}) =>
          /\ xr.fields = xr0.fields /\ environment = req.env
          /\ Failed => ret.err = Wrap("patch set not found", errInline)

\* Compose went on to render with a nil environment although the Composition
\* declares environment patches, one of which would have written the
\* environment and one of which would have failed: none of them ran.
C24_NilEnvironmentSkipsPatches ==
    /\ Returned
    /\ ~req.env.present /\ req.declared
    /\ Len(req.patches) = 2
    /\ ApplyEnvironmentPatch(req.patches[1], xr0, req.env).a # req.env
    /\ ApplyEnvironmentPatch(req.patches[2], xr0, req.env).err # Nil
    /\ environment = req.env
    /\ rendered # <<>>

\* Compose failed on its second environment patch: the first one changed the
\* composite, the third one, which would have applied, did not.
C24_Witness ==
    /\ Failed
    /\ Len(req.patches) = 3
    /\ ret.err = EnvironmentPatchError(2)
    /\ xr # xr0
    /\ xr = EnvironmentPrefix(1).cp
    /\ EnvironmentPatchResult(EnvironmentPrefix(1), req.patches[3]).cp # xr
    /\ rendered = <<>>
    /\ ct # <<>>


\* C25: Compose ends in one of two ways.  Either it returns an error and no
\* states, the error being that of the inlining or of an environment patch,
\* with nothing rendered and the composite's references as they were; or it
\* returns a nil error with one state per template and the composite's
\* references set to the rendered ones.  Once a render ran Compose never
\* returns an error.
C25_ExclusiveOutcomes ==
    /\ Failed =>
          /\ ret.cds = <<>>
          /\ rendered = <<>> /\ refs = <<>>
          /\ xr.refs = xr0.refs
          /\ \/ ret.err = Wrap("patch set not found", errInline)
             \/ \E j \in 1..EnvironmentPatchCount : ret.err = EnvironmentPatchError(j)
    /\ Returned =>
          /\ Len(ret.cds) = Len(ct)
          /\ Len(rendered) = Len(ct)
          /\ Len(xr.refs) = Len(ct)
          /\ xr.refs = refs
          /\ \A k \in 1..Len(ct) : xr.refs[k] = ReferenceTo(ret.cds[k].Resource)
    /\ rendered # <<>> => (~Failed /\ ret.err \in {NoReturn.err, Nil})
    /\ pc = "done" => (Failed \/ Returned)

\* Compose returned a nil error with two states, one of them with a render
\* error, and replaced the composite's references.
C25_Witness ==
    /\ Returned
    /\ Len(ret.cds) = 2
    /\ ret.cds[1].TemplateRenderErr # Nil
    /\ ret.cds[2].TemplateRenderErr = Nil
    /\ xr.refs # xr0.refs
    /\ xr.refs = refs



(***************************************************************************)
(* The control-plane clients (space and cloud).  The API behind a client   *)
(* holds the control planes and, for a space, the connection secrets; a    *)
(* call to it succeeds, reports not-found, or fails otherwise.  Other      *)
(* clients of the same API change it between the calls of this one.        *)
(***************************************************************************)
ControlPlaneNames == {"cp1", "cp2"}

\* Errors of the Kubernetes API (space) and of the Upbound SDK (cloud).
errK8sNotFound == "k8s: not found"
errK8sForbidden == "k8s: forbidden"
errK8sAlreadyExists == "k8s: already exists"
errSdkNotFound == "sdk: not found"
errSdkInternal == "sdk: internal error"
errSdkAlreadyExists == "sdk: already exists"
errConvertSecret == "cannot convert unstructured to secret"
errLoadKubeconfig == "cannot load kubeconfig"

\* kerrors.IsNotFound(err), sdkerrs.IsNotFound(err); both false on nil.
kerrorsIsNotFound(err) == err = errK8sNotFound
sdkerrsIsNotFound(err) == err = errSdkNotFound

\* controlplane.NewNotFound(err).
NewNotFound(err) == "control plane not found: " \o err

\* controlplane.Options as Create reads them.
Options(secretName, secretNamespace, configurationName) ==
    [SecretName |-> secretName, SecretNamespace |-> secretNamespace,
     ConfigurationName |-> configurationName]
CreateOptions ==
    {Options("", "default", "cfg"),
     Options("my-secret", "upbound-system", "no-such-cfg")}

\* A control plane object of the API: a space control plane may carry a
\* connection secret reference, a cloud one a configuration.
ControlPlane(name, hasRef, refName, refNamespace, cfg) ==
    [exists |-> TRUE, name |-> name, hasRef |-> hasRef, refName |-> refName,
     refNamespace |-> refNamespace, cfg |-> cfg]
NoControlPlane ==
    [exists |-> FALSE, name |-> "", hasRef |-> FALSE, refName |-> "",
     refNamespace |-> "", cfg |-> ""]

\* The not-found error, another error, and the already-exists error of the
\* API behind client c.
BackendNotFound(c) == IF c = "space" THEN errK8sNotFound ELSE errSdkNotFound
BackendFailure(c) == IF c = "space" THEN errK8sForbidden ELSE errSdkInternal
BackendAlreadyExists(c) ==
    IF c = "space" THEN errK8sAlreadyExists ELSE errSdkAlreadyExists

\* The control-plane API: Get, List, Create and Delete.
BackendGet(c, b, name) ==
    IF b.fault THEN [obj |-> NoControlPlane, err |-> BackendFailure(c)]
    ELSE IF ~b.ctps[name].exists
    THEN [obj |-> NoControlPlane, err |-> BackendNotFound(c)]
    ELSE [obj |-> b.ctps[name], err |-> Nil]

BackendList(c, b) ==
    IF b.fault THEN [items |-> <<>>, err |-> BackendFailure(c)]
    ELSE [items |-> (IF b.ctps["cp1"].exists THEN <<b.ctps["cp1"]>> ELSE <<>>)
                    \o (IF b.ctps["cp2"].exists THEN <<b.ctps["cp2"]>> ELSE <<>>),
          err |-> Nil]

BackendCreate(c, b, obj) ==
    IF b.fault THEN [b |-> b, obj |-> NoControlPlane, err |-> BackendFailure(c)]
    ELSE IF b.ctps[obj.name].exists
    THEN [b |-> b, obj |-> NoControlPlane, err |-> BackendAlreadyExists(c)]
    ELSE [b |-> [b EXCEPT !.ctps[obj.name] = obj], obj |-> obj, err |-> Nil]

BackendDelete(c, b, name) ==
    IF b.fault THEN [b |-> b, err |-> BackendFailure(c)]
    ELSE IF ~b.ctps[name].exists THEN [b |-> b, err |-> BackendNotFound(c)]
    ELSE [b |-> [b EXCEPT !.ctps[name] = NoControlPlane], err |-> Nil]

\* The configurations API of the cloud: one configuration, cfg, exists.
BackendConfigurationGet(b, name) ==
    IF b.fault THEN [id |-> "", err |-> errSdkInternal]
    ELSE IF name # "cfg" THEN [id |-> "", err |-> errSdkNotFound]
    ELSE [id |-> name, err |-> Nil]

\* The secrets a space may hold, as namespace/name.
SecretKey(namespace, name) == namespace \o "/" \o name
SecretKeys ==
    {SecretKey("default", "kubeconfig-cp1"), SecretKey("default", "kubeconfig-cp2"),
     SecretKey("upbound-system", "my-secret")}

\* The secrets API: Get of a secret.  A failed call hands back no object, or
\* an empty one, with its error.
BackendSecretGet(b, namespace, name) ==
    IF b.secretFault # "none"
    THEN [present |-> b.secretFault = "empty", content |-> "nokey",
          err |-> errK8sForbidden]
    ELSE IF SecretKey(namespace, name) \notin b.secrets
    THEN [present |-> FALSE, content |-> "", err |-> errK8sNotFound]
    ELSE [present |-> TRUE, content |-> b.secret, err |-> Nil]

\* What a client call hands back: the response, list or kubeconfig, the
\* error, the error the API returned to the client, and whether the call
\* panicked.
ClientResult(resp, cfg, err, backendErr, panicked) ==
    [resp |-> resp, list |-> <<>>, cfg |-> cfg, err |-> err,
     backendErr |-> backendErr, panicked |-> panicked, held |-> ""]

\* calculateSecret(name, opts): the secret name defaults to kubeconfig-<name>.
calculateSecret(name, opts) ==
    IF opts.SecretName = ""
    THEN [opts EXCEPT !.SecretName = "kubeconfig-" \o name]
    ELSE opts

\* space: convert(ctp); a control plane without a connection secret
\* reference converts with empty ConnName and ConnNamespace.
SpaceConvert(obj) ==
    [present |-> TRUE, Name |-> obj.name,
     ConnName |-> IF obj.hasRef THEN obj.refName ELSE "",
     ConnNamespace |-> IF obj.hasRef THEN obj.refNamespace ELSE "",
     Cfg |-> ""]

\* cloud: convert(ctp); a control plane without a configuration converts
\* with Cfg n/a.
notAvailable == "n/a"
CloudConvert(obj) ==
    [present |-> TRUE, Name |-> obj.name, ConnName |-> "", ConnNamespace |-> "",
     Cfg |-> IF obj.cfg # "" THEN obj.cfg ELSE notAvailable]

\* space Client.Get after the API call returned r.
SpaceGetResult(r) ==
    IF kerrorsIsNotFound(r.err)
    THEN ClientResult(NoResponse, Nil, NewNotFound(r.err), r.err, FALSE)
    ELSE IF r.err # Nil
    THEN ClientResult(NoResponse, Nil, r.err, r.err, FALSE)
    ELSE ClientResult(SpaceConvert(r.obj), Nil, Nil, Nil, FALSE)

\* space Client.Get(ctx, name).
SpaceGet(b, name) == SpaceGetResult(BackendGet("space", b, name))

\* cloud Client.Get after the API call returned r.
CloudGetResult(r) ==
    IF sdkerrsIsNotFound(r.err)
    THEN ClientResult(NoResponse, Nil, NewNotFound(r.err), r.err, FALSE)
    ELSE IF r.err # Nil
    THEN ClientResult(NoResponse, Nil, r.err, r.err, FALSE)
    ELSE ClientResult(CloudConvert(r.obj), Nil, Nil, Nil, FALSE)

\* cloud Client.Get(ctx, name).
CloudGet(b, name) == CloudGetResult(BackendGet("cloud", b, name))

\* space Client.List(ctx): any error of the API is returned as it is.
SpaceListResult(r) ==
    IF r.err # Nil THEN ClientResult(NoResponse, Nil, r.err, r.err, FALSE)
    ELSE [ClientResult(NoResponse, Nil, Nil, Nil, FALSE)
             EXCEPT !.list = [k \in DOMAIN r.items |-> SpaceConvert(r.items[k])]]
SpaceList(b) == SpaceListResult(BackendList("space", b))

\* cloud Client.List(ctx).
CloudListResult(r) ==
    IF r.err # Nil THEN ClientResult(NoResponse, Nil, r.err, r.err, FALSE)
    ELSE [ClientResult(NoResponse, Nil, Nil, Nil, FALSE)
             EXCEPT !.list = [k \in DOMAIN r.items |-> CloudConvert(r.items[k])]]
CloudList(b) == CloudListResult(BackendList("cloud", b))

\* space Client.Create after the API call returned r.
SpaceCreateResult(r) ==
    [b |-> r.b,
     res |-> IF r.err # Nil THEN ClientResult(NoResponse, Nil, r.err, r.err, FALSE)
             ELSE ClientResult(SpaceConvert(r.obj), Nil, Nil, Nil, FALSE)]

\* The control plane space Create sends: named name, with the connection
\* secret reference of the options o.
SpaceControlPlane(name, o) ==
    ControlPlane(name, TRUE, o.SecretName, o.SecretNamespace, "")

\* space Client.Create(ctx, name, opts).
SpaceCreate(b, name, opts) ==
    SpaceCreateResult(
        BackendCreate("space", b, SpaceControlPlane(name, calculateSecret(name, opts))))

\* cloud Client.Create after c.ctp.Create returned r.
CloudCreateResult(r) ==
    [b |-> r.b,
     res |-> IF r.err # Nil THEN ClientResult(NoResponse, Nil, r.err, r.err, FALSE)
             ELSE ClientResult(CloudConvert(r.obj), Nil, Nil, Nil, FALSE)]

\* cloud Client.Create after c.cfg.Get returned cfg: its error is returned,
\* otherwise the call goes on holding the configuration's ID.
CloudCreateConfigured(cfg) ==
    IF cfg.err # Nil
    THEN ClientResult(NoResponse, Nil, cfg.err, cfg.err, FALSE)
    ELSE [ClientResult(NoResponse, Nil, Nil, Nil, FALSE) EXCEPT !.held = cfg.id]

\* cloud Client.Create up to the return of c.cfg.Get; the API is not written.
CloudCreateConfiguration(b, opts) ==
    [b |-> b,
     res |-> CloudCreateConfigured(BackendConfigurationGet(b, opts.ConfigurationName))]

\* cloud Client.Create from c.ctp.Create on, for the configuration ID id.
CloudCreateControlPlane(b, name, id) ==
    CloudCreateResult(BackendCreate("cloud", b, ControlPlane(name, FALSE, "", "", id)))

\* The result of Delete after the API call returned r, for an error that is
\* (notFound) or is not the API's not-found error.
DeleteResult(r, notFound) ==
    [b |-> r.b,
     res |-> ClientResult(NoResponse, Nil,
                          IF notFound THEN NewNotFound(r.err) ELSE r.err,
                          r.err, FALSE)]

\* A Delete that reports a control plane that is not there as deleted.
SpaceDelete_IgnoreNotFound(b, name) ==
    [DeleteResult(BackendDelete("space", b, name), FALSE) EXCEPT
        !.res.err = IF kerrorsIsNotFound(BackendDelete("space", b, name).err)
                    THEN Nil ELSE BackendDelete("space", b, name).err]

\* space Client.Delete(ctx, name): the API as the call left it, and the result.
SpaceDelete(b, name) ==
    DeleteResult(BackendDelete("space", b, name),
                 kerrorsIsNotFound(BackendDelete("space", b, name).err))

\* cloud Client.Delete(ctx, name).
CloudDelete(b, name) ==
    DeleteResult(BackendDelete("cloud", b, name),
                 sdkerrsIsNotFound(BackendDelete("cloud", b, name).err))

\* clientcmd.Load(s.Data["kubeconfig"]): no data gives an empty config.
Load(content) ==
    IF content = "nokey" THEN ClientResult(NoResponse, "empty kubeconfig", Nil, Nil, FALSE)
    ELSE IF content = "invalid"
    THEN ClientResult(NoResponse, Nil, errLoadKubeconfig, Nil, FALSE)
    ELSE ClientResult(NoResponse, "kubeconfig", Nil, Nil, FALSE)

\* space GetKubeConfig after the secret fetch returned u: only a not-found
\* error is looked at; u.UnstructuredContent() on no object panics.
SpaceKubeConfigOfSecret(u) ==
    IF kerrorsIsNotFound(u.err)
    THEN ClientResult(NoResponse, Nil, NewNotFound(u.err), u.err, FALSE)
    ELSE IF ~u.present
    THEN ClientResult(NoResponse, Nil, Nil, u.err, TRUE)
    ELSE IF u.content = "malformed"
    THEN ClientResult(NoResponse, Nil, errConvertSecret, u.err, FALSE)
    ELSE [Load(u.content) EXCEPT !.backendErr = u.err]

\* space GetKubeConfig: the secret fetch for the control plane r that c.Get
\* returned, and what follows it.
SpaceKubeConfigOfControlPlane(b, r) ==
    SpaceKubeConfigOfSecret(BackendSecretGet(b, r.ConnNamespace, r.ConnName))

\* kube.BuildControlPlaneKubeconfig(proxy, path.Join(account, name), token, false).
BuildControlPlaneKubeconfig(id) == "proxy kubeconfig of " \o id

\* cloud Client.GetKubeConfig(ctx, name): no API call, never an error.
CloudGetKubeConfig(b, name) ==
    ClientResult(NoResponse, BuildControlPlaneKubeconfig("acme/" \o name), Nil, Nil, FALSE)

\* The connection secrets of a space carry kubeconfig data that is valid,
\* invalid or absent, or they cannot be converted.
SecretContents == {"valid", "invalid", "nokey", "malformed"}
\* A failing secrets API hands back no object or an empty one.
SecretFaults == {"none", "nil", "empty"}

\* The states of control plane n in a space: absent, without a connection
\* secret reference, or created with either of the options.
SpaceObjects(n) ==
    {NoControlPlane, ControlPlane(n, FALSE, "", "", "")}
    \cup {SpaceControlPlane(n, calculateSecret(n, o)) : o \in CreateOptions}
\* The states of control plane n in the cloud: absent, with or without a
\* configuration.
CloudObjects(n) ==
    {NoControlPlane, ControlPlane(n, FALSE, "", "", ""),
     ControlPlane(n, FALSE, "", "", "cfg")}

\* The APIs a client is run against.
Backends(c) ==
    IF c = "space"
    THEN {[ctps |-> [n \in ControlPlaneNames |-> IF n = "cp1" THEN o1 ELSE o2],
           fault |-> f, secrets |-> s, secret |-> k, secretFault |-> sf] :
             o1 \in SpaceObjects("cp1"), o2 \in SpaceObjects("cp2"), f \in BOOLEAN,
             s \in SUBSET SecretKeys, k \in SecretContents, sf \in SecretFaults}
    ELSE {[ctps |-> [n \in ControlPlaneNames |-> IF n = "cp1" THEN o1 ELSE o2],
           fault |-> f, secrets |-> {}, secret |-> "valid", secretFault |-> "none"] :
             o1 \in CloudObjects("cp1"), o2 \in CloudObjects("cp2"), f \in BOOLEAN}

InitClient ==
    /\ ComposeOff
    /\ RenderIdle
    /\ cpc = "call"
    /\ client \in {"space", "cloud"}
    /\ backend \in Backends(client)
    /\ cret = NoCall

\* The record of a call of op on name that returned res.
Called(op, name, res) ==
    [op |-> op, name |-> name, resp |-> res.resp, list |-> res.list, cfg |-> res.cfg,
     err |-> res.err, backendErr |-> res.backendErr, panicked |-> res.panicked,
     held |-> res.held]

\* Client.Get(ctx, name).
ClientGet ==
    /\ cpc = "call"
    /\ \E name \in ControlPlaneNames :
          cret' = Called("Get", name,
                         IF client = "space" THEN SpaceGet(backend, name)
                         ELSE CloudGet(backend, name))
    /\ UNCHANGED <<cpc, client, backend>>
    /\ UNCHANGED <<composeVars, renderVars>>

\* Client.List(ctx).
ClientList ==
    /\ cpc = "call"
    /\ cret' = Called("List", "",
                      IF client = "space" THEN SpaceList(backend)
                      ELSE CloudList(backend))
    /\ UNCHANGED <<cpc, client, backend>>
    /\ UNCHANGED <<composeVars, renderVars>>

\* Client.Create(ctx, name, opts).  space: the whole call.  cloud: up to the
\* return of c.cfg.Get; on an error the call returns it, otherwise it goes on
\* to create the control plane.
ClientCreate ==
    /\ cpc = "call"
    /\ \E name \in ControlPlaneNames, opts \in CreateOptions :
       \E d \in {IF client = "space" THEN SpaceCreate(backend, name, opts)
                 ELSE CloudCreateConfiguration(backend, opts)} :
          /\ cret' = Called("Create", name, d.res)
          /\ backend' = d.b
          /\ cpc' = IF client = "cloud" /\ d.res.err = Nil THEN "create" ELSE cpc
    /\ UNCHANGED client
    /\ UNCHANGED <<composeVars, renderVars>>

\* cloud Create from c.ctp.Create on, with the API as it is by then.
ClientCreateControlPlane ==
    /\ cpc = "create"
    /\ \E d \in {CloudCreateControlPlane(backend, cret.name, cret.held)} :
          /\ cret' = Called("Create", cret.name, d.res)
          /\ backend' = d.b
    /\ cpc' = "call"
    /\ UNCHANGED client
    /\ UNCHANGED <<composeVars, renderVars>>

\* Client.Delete(ctx, name).
ClientDelete ==
    /\ cpc = "call"
    /\ \E name \in ControlPlaneNames :
       \E d \in {IF client = "space" THEN SpaceDelete(backend, name)
                 ELSE CloudDelete(backend, name)} :
          /\ cret' = Called("Delete", name, d.res)
          /\ backend' = d.b
    /\ UNCHANGED <<cpc, client>>
    /\ UNCHANGED <<composeVars, renderVars>>

\* Client.GetKubeConfig(ctx, name).  cloud: the whole call.  space: up to the
\* return of c.Get; on an error the call returns it, otherwise it goes on to
\* fetch the secret of the control plane it got.
ClientGetKubeConfig ==
    /\ cpc = "call"
    /\ \E name \in ControlPlaneNames :
       \E r \in {IF client = "space" THEN SpaceGet(backend, name)
                 ELSE CloudGetKubeConfig(backend, name)} :
          /\ cret' = Called("GetKubeConfig", name, r)
          /\ cpc' = IF client = "space" /\ r.err = Nil THEN "secret" ELSE cpc
    /\ UNCHANGED <<client, backend>>
    /\ UNCHANGED <<composeVars, renderVars>>

\* space GetKubeConfig from the secret fetch on, with the API as it is by
\* then; a panic ends the program.
ClientGetKubeConfigSecret ==
    /\ cpc = "secret"
    /\ \E res \in {SpaceKubeConfigOfControlPlane(backend, cret.resp)} :
          /\ cret' = Called("GetKubeConfig", cret.name, res)
          /\ cpc' = IF res.panicked THEN "panic" ELSE "call"
    /\ UNCHANGED <<client, backend>>
    /\ UNCHANGED <<composeVars, renderVars>>

\* Another client of the API deletes a control plane.
OtherClientDeletes ==
    /\ cpc \in {"call", "secret", "create"}
    /\ \E name \in ControlPlaneNames :
          /\ backend.ctps[name].exists
          /\ backend' = [backend EXCEPT !.ctps[name] = NoControlPlane]
    /\ UNCHANGED <<cpc, client, cret>>
    /\ UNCHANGED <<composeVars, renderVars>>

\* The space writes or removes a connection secret.
SecretChanges ==
    /\ cpc \in {"call", "secret"}
    /\ client = "space"
    /\ \E key \in SecretKeys :
          backend' = [backend EXCEPT
                         !.secrets = IF key \in @ THEN @ \ {key} ELSE @ \cup {key}]
    /\ UNCHANGED <<cpc, client, cret>>
    /\ UNCHANGED <<composeVars, renderVars>>

NextClient ==
    \/ ClientGet \/ ClientList \/ ClientCreate \/ ClientCreateControlPlane
    \/ ClientDelete
    \/ ClientGetKubeConfig \/ ClientGetKubeConfigSecret
    \/ OtherClientDeletes \/ SecretChanges

SpecClient == InitClient /\ [][NextClient]_vars


\* C26 as claimed: space GetKubeConfig returns an error and no kubeconfig,
\* without panicking, whenever the fetch of the control plane or of its
\* connection secret failed, whatever the error.
C26_KubeConfigFailsOnAnyFetchError ==
    (client = "space" /\ cret.op = "GetKubeConfig" /\ cret.backendErr # Nil) =>
        /\ cret.err # Nil
        /\ cret.cfg = Nil
        /\ ~cret.panicked

\* The API error is the not-found error of the client's API.
IsBackendNotFound(err) ==
    IF client = "space" THEN kerrorsIsNotFound(err) ELSE sdkerrsIsNotFound(err)

\* C27: in both clients Get and Delete return the controlplane NotFound error
\* for a not-found error of the API, any other API error as it is, and a nil
\* error exactly when the API call succeeded; Get returns a response exactly
\* with a nil error.  The API error is the one the API gives: its failure
\* when it is failing, otherwise not-found for a control plane that is not
\* there; after a Delete on a working API the control plane is not there.
C27_NotFoundMapped ==
    cret.op \in {"Get", "Delete"} =>
        /\ IsBackendNotFound(cret.backendErr) => cret.err = NewNotFound(cret.backendErr)
        /\ (cret.backendErr # Nil /\ ~IsBackendNotFound(cret.backendErr)) =>
              cret.err = cret.backendErr
        /\ cret.err = Nil <=> cret.backendErr = Nil
        /\ ~cret.panicked
        /\ cret.resp.present <=> (cret.op = "Get" /\ cret.err = Nil)
        /\ cret.resp.present => cret.resp.Name = cret.name
        /\ IF backend.fault THEN cret.backendErr = BackendFailure(client)
           ELSE cret.backendErr \in {Nil, BackendNotFound(client)}
        /\ IsBackendNotFound(cret.backendErr) => ~backend.ctps[cret.name].exists
        /\ (cret.op = "Delete" /\ ~backend.fault) => ~backend.ctps[cret.name].exists

\* A space Delete of a control plane that does not exist, with another one
\* that does: the API's not-found error came back as the NotFound error.
C27_Witness ==
    /\ client = "space"
    /\ cret.op = "Delete"
    /\ ~backend.ctps[cret.name].exists
    /\ \E n \in ControlPlaneNames : backend.ctps[n].exists
    /\ kerrorsIsNotFound(cret.backendErr)
    /\ cret.err = NewNotFound(errK8sNotFound)

====
